---- MODULE Spec2Model ----
\* Model of advanced-vector/vector.h: RawMemory<T> (a block of raw slots) and
\* Vector<T> (a RawMemory plus the number of constructed elements).
\*
\* Two Vector objects, v[1] and v[2], of the same element type are operated on
\* by the public operations.  A vector is a record [data, size]: data is the
\* RawMemory block, one entry per slot (Len(data) is the capacity), each slot
\* either Raw (no object there) or the value of the element constructed there.
\* The code's index k (0-based) is data[k + 1].
\*
\* The element type ty is fixed at the start.  swallowed tells whether the
\* last call returned normally although one of its steps threw.  appends and
\* relocs count, in the program that only appends, the append calls made and
\* the old elements they transferred into new blocks.
\*
\* Exceptions: every operation takes a fault index f.  The steps of an
\* operation that can throw (an allocation of a non-empty block, an element
\* constructor, copy or move of a type whose operation may throw) are numbered
\* 1, 2, ... in execution order; step number f throws, f = 0 means none does.
\* Each operator returns the number c of such steps it has executed.
EXTENDS Integers, Sequences, FiniteSets, TLC

\* Bound on the slots held by the two vectors together.
MaxCap == 4
\* Element values are 0..MaxVal.
MaxVal == 1
\* Bound on the number of calls in the program that only appends.
MaxAppends == 8

\* A slot without an object (memory as Allocate returns it, or after ~T()).
Raw == -1
\* The value of a value-initialised element, T().
DefaultValue == 0
\* The value a moved-from element is left with.
MovedFrom == 0

Values == 0..MaxVal

\* Element types: whether T's move operations are noexcept and whether T has
\* a copy constructor.
ElemTypes ==
    { [nothrowMove |-> TRUE,  copyable |-> TRUE],
      [nothrowMove |-> FALSE, copyable |-> TRUE],
      [nothrowMove |-> FALSE, copyable |-> FALSE] }

VARIABLES v, ty, swallowed, appends, relocs
vars == <<v, ty, swallowed, appends, relocs>>

-----------------------------------------------------------------------------
\* RawMemory

\* RawMemory(capacity): Allocate(capacity), all slots raw.
NewRaw(n) == [k \in 1..n |-> Raw]

\* Whether Allocate(n) can throw: operator new is called only for n != 0.
AllocCanThrow(n) == n # 0

EmptyVec == [data |-> <<>>, size |-> 0]

Capacity(vec) == Len(vec.data)

Size(vec) == vec.size

\* The elements in [0, size), as the caller reads them through operator[].
Elems(vec) == SubSeq(vec.data, 1, vec.size)

-----------------------------------------------------------------------------
\* Standard algorithms the code calls, on slot sequences.
\* c: throwing-capable steps executed before, f: the step that throws.

\* if constexpr (is_nothrow_move_constructible_v<T> || !is_copy_constructible_v<T>)
UseMove(t) == t.nothrowMove \/ ~t.copyable

\* std::destroy_n(buf + off, n)
DestroyN(buf, off, n) ==
    [k \in 1..Len(buf) |-> IF k > off /\ k <= off + n THEN Raw ELSE buf[k]]

\* std::uninitialized_copy_n(src + so, n, dst + doff): copy-constructs in
\* order; when a copy throws, the copies already made are destroyed.
UninitCopyN(src, so, n, dst, doff, c, f) ==
    LET hit == f > c /\ f <= c + n
    IN [src |-> src,
        dst |-> IF hit THEN dst
                ELSE [k \in 1..Len(dst) |->
                        IF k > doff /\ k <= doff + n THEN src[so + (k - doff)]
                        ELSE dst[k]],
        thrown |-> hit,
        c |-> IF hit THEN f ELSE c + n]

\* std::uninitialized_move_n(src + so, n, dst + doff): move-constructs in
\* order; the sources already moved from stay moved-from when a move throws
\* and the objects already constructed are destroyed.
UninitMoveN(src, so, n, dst, doff, c, f, canThrow) ==
    LET hit == canThrow /\ f > c /\ f <= c + n
        done == IF hit THEN f - c - 1 ELSE n
    IN [src |-> [k \in 1..Len(src) |->
                    IF k > so /\ k <= so + done THEN MovedFrom ELSE src[k]],
        dst |-> IF hit THEN dst
                ELSE [k \in 1..Len(dst) |->
                        IF k > doff /\ k <= doff + n THEN src[so + (k - doff)]
                        ELSE dst[k]],
        thrown |-> hit,
        c |-> IF ~canThrow THEN c ELSE IF hit THEN f ELSE c + n]

\* Transfer that moves whatever the type (the if constexpr left out).
TransferAlwaysMoves(t, src, so, n, dst, doff, c, f) ==
    UninitMoveN(src, so, n, dst, doff, c, f, ~t.nothrowMove)

\* The transfer of old elements into a new block, by move or by copy.
Transfer(t, src, so, n, dst, doff, c, f) ==
    IF UseMove(t)
    THEN UninitMoveN(src, so, n, dst, doff, c, f, ~t.nothrowMove)
    ELSE UninitCopyN(src, so, n, dst, doff, c, f)

\* std::uninitialized_value_construct_n(dst + off, n): on a throw the
\* elements already constructed are destroyed.
UninitValueConstructN(dst, off, n, c, f) ==
    LET hit == f > c /\ f <= c + n
    IN [dst |-> IF hit THEN dst
                ELSE [k \in 1..Len(dst) |->
                        IF k > off /\ k <= off + n THEN DefaultValue ELSE dst[k]],
        thrown |-> hit,
        c |-> IF hit THEN f ELSE c + n]

\* std::copy_n(src, n, dst): copy-assigns in order; elements assigned before
\* a throwing assignment keep their new value.
CopyN(src, n, dst, c, f) ==
    LET hit == f > c /\ f <= c + n
        done == IF hit THEN f - c - 1 ELSE n
    IN [dst |-> [k \in 1..Len(dst) |-> IF k <= done THEN src[k] ELSE dst[k]],
        thrown |-> hit,
        c |-> IF hit THEN f ELSE c + n]

\* std::move(first, last, d_first): move-assigns data[from] to data[to],
\* then the next pair, up to data[lst].
RECURSIVE MoveForward(_, _, _, _, _, _, _)
MoveForward(d, from, to, lst, c, f, canThrow) ==
    IF from > lst THEN [data |-> d, thrown |-> FALSE, c |-> c]
    ELSE IF canThrow /\ f = c + 1 THEN [data |-> d, thrown |-> TRUE, c |-> c + 1]
    ELSE MoveForward([d EXCEPT ![to] = d[from], ![from] = MovedFrom],
                     from + 1, to + 1, lst,
                     IF canThrow THEN c + 1 ELSE c, f, canThrow)

\* std::move_backward(first, last, d_last): move-assigns data[from] to
\* data[to], then the pair before it, down to data[fst].
RECURSIVE MoveBackward(_, _, _, _, _, _, _)
MoveBackward(d, from, to, fst, c, f, canThrow) ==
    IF from < fst THEN [data |-> d, thrown |-> FALSE, c |-> c]
    ELSE IF canThrow /\ f = c + 1 THEN [data |-> d, thrown |-> TRUE, c |-> c + 1]
    ELSE MoveBackward([d EXCEPT ![to] = d[from], ![from] = MovedFrom],
                      from - 1, to - 1, fst,
                      IF canThrow THEN c + 1 ELSE c, f, canThrow)

-----------------------------------------------------------------------------
\* Vector operations.  Each returns [v: the vector afterwards, res: "ok" when
\* the call returns and "throw" when an exception leaves it, c: the steps
\* executed, alloc: the number of the step that is the call's allocation, 0
\* when the call requests no storage, blk: "own" when data_ still holds the
\* block it held before the call, "new" when it holds the one the call
\* allocated, freed: the slots of the block the call deallocated, as they
\* are when ~RawMemory() runs, <<>> when it deallocated none].

Ok(vec, c) ==
    [v |-> vec, res |-> "ok", c |-> c, alloc |-> 0, blk |-> "own",
     freed |-> <<>>]
Throw(vec, c) ==
    [v |-> vec, res |-> "throw", c |-> c, alloc |-> 0, blk |-> "own",
     freed |-> <<>>]

\* A normal return after data_.Swap(new_data), or from a constructor that
\* allocated data_.
OkNew(vec, c) == [Ok(vec, c) EXCEPT !.blk = "new"]

\* r, a result of code whose step number k is RawMemory<T> new_data(n), n != 0.
Allocating(k, r) == [r EXCEPT !.alloc = k]

\* r, a result of code at whose exit the RawMemory that holds block goes out
\* of scope: ~RawMemory() deallocates it without looking at its slots.
Releasing(block, r) == [r EXCEPT !.freed = block]

\* Reserve that destroys the old elements before it allocates.
ReserveDestroysFirst(vec, n, t, f) ==
    IF n <= Capacity(vec) THEN Ok(vec, 0)
    ELSE Allocating(1,
         IF f = 1
         THEN Throw([vec EXCEPT !.data = DestroyN(vec.data, 0, vec.size)], 1)
         ELSE LET tr == Transfer(t, vec.data, 0, vec.size, NewRaw(n), 0, 1, f)
              IN IF tr.thrown
                 THEN Releasing(tr.dst,
                                Throw([vec EXCEPT !.data = tr.src], tr.c))
                 ELSE Releasing(DestroyN(tr.src, 0, vec.size),
                                OkNew([vec EXCEPT !.data = tr.dst], tr.c)))

\* Reserve that allocates at least twice the old capacity.
ReserveDoubles(vec, n, t, f) ==
    IF n <= Capacity(vec) THEN Ok(vec, 0)
    ELSE Allocating(1,
         IF f = 1 THEN Throw(vec, 1)
         ELSE LET m == IF n < 2 * Capacity(vec) THEN 2 * Capacity(vec) ELSE n
                  tr == Transfer(t, vec.data, 0, vec.size, NewRaw(m), 0, 1, f)
              IN IF tr.thrown
                 THEN Releasing(tr.dst,
                                Throw([vec EXCEPT !.data = tr.src], tr.c))
                 ELSE Releasing(DestroyN(tr.src, 0, vec.size),
                                OkNew([vec EXCEPT !.data = tr.dst], tr.c)))

\* void Reserve(size_t new_capacity)
Reserve(vec, n, t, f) ==
    IF n <= Capacity(vec) THEN Ok(vec, 0)
    ELSE Allocating(1,
         IF f = 1 THEN Throw(vec, 1)
         ELSE LET tr == Transfer(t, vec.data, 0, vec.size, NewRaw(n), 0, 1, f)
              IN IF tr.thrown
                 THEN Releasing(tr.dst,
                                Throw([vec EXCEPT !.data = tr.src], tr.c))
                 ELSE Releasing(DestroyN(tr.src, 0, vec.size),
                                OkNew([vec EXCEPT !.data = tr.dst], tr.c)))

\* Resize that grows without calling Reserve.
ResizeWithoutReserve(vec, n, t, f) ==
    IF n > vec.size
    THEN LET vc == UninitValueConstructN(vec.data, vec.size, n - vec.size, 0, f)
         IN IF vc.thrown THEN Throw(vec, vc.c)
            ELSE Ok([data |-> vc.dst, size |-> n], vc.c)
    ELSE IF n < vec.size
    THEN Ok([data |-> DestroyN(vec.data, n, vec.size - n), size |-> n], 0)
    ELSE Ok(vec, 0)

\* Resize that shrinks by lowering size_ only and, when it grows, constructs
\* only in the slots that hold no object.
ResizeReexposes(vec, n, t, f) ==
    IF n > vec.size
    THEN LET r == Reserve(vec, n, t, f)
         IN IF r.res = "throw" THEN r
            ELSE [Ok([data |-> [k \in 1..Len(r.v.data) |->
                                  IF k > vec.size /\ k <= n /\ r.v.data[k] = Raw
                                  THEN DefaultValue ELSE r.v.data[k]],
                      size |-> n], r.c)
                  EXCEPT !.alloc = r.alloc, !.blk = r.blk, !.freed = r.freed]
    ELSE Ok([vec EXCEPT !.size = n], 0)

\* void Resize(size_t new_size)
Resize(vec, n, t, f) ==
    IF n > vec.size
    THEN LET r == Reserve(vec, n, t, f)
         IN IF r.res = "throw" THEN r
            ELSE LET vc == UninitValueConstructN(r.v.data, vec.size,
                                                 n - vec.size, r.c, f)
                 IN [(IF vc.thrown THEN Throw(r.v, vc.c)
                      ELSE Ok([data |-> vc.dst, size |-> n], vc.c))
                     EXCEPT !.alloc = r.alloc, !.blk = r.blk, !.freed = r.freed]
    ELSE IF n < vec.size
    THEN Ok([data |-> DestroyN(vec.data, n, vec.size - n), size |-> n], 0)
    ELSE Ok(vec, 0)

\* EmplaceBack that grows the block by one slot.
EmplaceBackGrowsByOne(vec, x, ctorThrows, t, f) ==
    LET c1 == IF ctorThrows THEN 1 ELSE 0
    IN IF vec.size < Capacity(vec)
       THEN IF ctorThrows /\ f = 1 THEN Throw(vec, 1)
            ELSE Ok([data |-> [vec.data EXCEPT ![vec.size + 1] = x],
                     size |-> vec.size + 1], c1)
       ELSE LET newCapacity == vec.size + 1
                newData == NewRaw(newCapacity)
            IN Allocating(1,
               IF f = 1 THEN Throw(vec, 1)
               ELSE IF ctorThrows /\ f = 2
               THEN Releasing(newData, Throw(vec, 2))
               ELSE LET withNew == [newData EXCEPT ![vec.size + 1] = x]
                        tr == Transfer(t, vec.data, 0, vec.size, withNew, 0,
                                       1 + c1, f)
                    IN IF tr.thrown
                       THEN Releasing(tr.dst,
                               Throw([vec EXCEPT !.data = tr.src], tr.c))
                       ELSE Releasing(DestroyN(tr.src, 0, vec.size),
                               OkNew([data |-> tr.dst, size |-> vec.size + 1],
                                     tr.c)))

\* T& EmplaceBack(Args&&... args): x is the value T(args...) has, ctorThrows
\* whether the constructor the arguments select can throw.
EmplaceBack(vec, x, ctorThrows, t, f) ==
    LET c1 == IF ctorThrows THEN 1 ELSE 0
    IN IF vec.size < Capacity(vec)
       THEN IF ctorThrows /\ f = 1 THEN Throw(vec, 1)
            ELSE Ok([data |-> [vec.data EXCEPT ![vec.size + 1] = x],
                     size |-> vec.size + 1], c1)
       ELSE LET newCapacity == IF vec.size = 0 THEN 1 ELSE vec.size * 2
                newData == NewRaw(newCapacity)
            IN Allocating(1,
               IF f = 1 THEN Throw(vec, 1)
               ELSE IF ctorThrows /\ f = 2
               THEN Releasing(newData, Throw(vec, 2))
               ELSE LET withNew == [newData EXCEPT ![vec.size + 1] = x]
                        tr == Transfer(t, vec.data, 0, vec.size, withNew, 0,
                                       1 + c1, f)
                    IN IF tr.thrown
                       THEN Releasing(tr.dst,
                               Throw([vec EXCEPT !.data = tr.src], tr.c))
                       ELSE Releasing(DestroyN(tr.src, 0, vec.size),
                               OkNew([data |-> tr.dst, size |-> vec.size + 1],
                                     tr.c)))

\* PushBack that transfers the old elements before it constructs the new one.
PushBackTransfersFirst(vec, x, t, f) ==
    IF vec.size < Capacity(vec)
    THEN IF f = 1 THEN Throw(vec, 1)
         ELSE Ok([data |-> [vec.data EXCEPT ![vec.size + 1] = x],
                  size |-> vec.size + 1], 1)
    ELSE LET newCapacity == IF vec.size = 0 THEN 1 ELSE vec.size * 2
             newData == NewRaw(newCapacity)
         IN Allocating(1,
            IF f = 1 THEN Throw(vec, 1)
            ELSE LET tr == Transfer(t, vec.data, 0, vec.size, newData, 0, 1, f)
                 IN IF tr.thrown
                    THEN Throw([vec EXCEPT !.data = tr.src], tr.c)
                    ELSE IF f = tr.c + 1
                    THEN Throw([vec EXCEPT !.data = tr.src], tr.c + 1)
                    ELSE OkNew([data |-> [tr.dst EXCEPT ![vec.size + 1] = x],
                                size |-> vec.size + 1], tr.c + 1))

\* void PushBack(const T& value): the new element is copy-constructed.
PushBack(vec, x, t, f) ==
    IF vec.size < Capacity(vec)
    THEN IF f = 1 THEN Throw(vec, 1)
         ELSE Ok([data |-> [vec.data EXCEPT ![vec.size + 1] = x],
                  size |-> vec.size + 1], 1)
    ELSE LET newCapacity == IF vec.size = 0 THEN 1 ELSE vec.size * 2
             newData == NewRaw(newCapacity)
         IN Allocating(1,
            IF f = 1 THEN Throw(vec, 1)
            ELSE IF f = 2 THEN Releasing(newData, Throw(vec, 2))
            ELSE LET withNew == [newData EXCEPT ![vec.size + 1] = x]
                     tr == Transfer(t, vec.data, 0, vec.size, withNew, 0, 2, f)
                 IN IF tr.thrown
                    THEN Releasing(tr.dst,
                            Throw([vec EXCEPT !.data = tr.src], tr.c))
                    ELSE Releasing(DestroyN(tr.src, 0, vec.size),
                            OkNew([data |-> tr.dst, size |-> vec.size + 1],
                                  tr.c)))

\* PushBack(U&&) that grows the block by one slot.
PushBackMoveGrowsByOne(vec, x, t, f) ==
    LET mt == ~t.nothrowMove
        c1 == IF mt THEN 1 ELSE 0
    IN IF vec.size < Capacity(vec)
       THEN IF mt /\ f = 1 THEN Throw(vec, 1)
            ELSE Ok([data |-> [vec.data EXCEPT ![vec.size + 1] = x],
                     size |-> vec.size + 1], c1)
       ELSE LET newCapacity == vec.size + 1
                newData == NewRaw(newCapacity)
            IN Allocating(1,
               IF f = 1 THEN Throw(vec, 1)
               ELSE IF mt /\ f = 2
               THEN Releasing(newData, Throw(vec, 2))
               ELSE LET withNew == [newData EXCEPT ![vec.size + 1] = x]
                        tr == Transfer(t, vec.data, 0, vec.size, withNew, 0,
                                       1 + c1, f)
                    IN IF tr.thrown
                       THEN Releasing(tr.dst,
                               Throw([vec EXCEPT !.data = tr.src], tr.c))
                       ELSE Releasing(DestroyN(tr.src, 0, vec.size),
                               OkNew([data |-> tr.dst, size |-> vec.size + 1],
                                     tr.c)))

\* void PushBack(U&& value) called with an rvalue T: the new element is
\* move-constructed.
PushBackMove(vec, x, t, f) ==
    LET mt == ~t.nothrowMove
        c1 == IF mt THEN 1 ELSE 0
    IN IF vec.size < Capacity(vec)
       THEN IF mt /\ f = 1 THEN Throw(vec, 1)
            ELSE Ok([data |-> [vec.data EXCEPT ![vec.size + 1] = x],
                     size |-> vec.size + 1], c1)
       ELSE LET newCapacity == IF vec.size = 0 THEN 1 ELSE vec.size * 2
                newData == NewRaw(newCapacity)
            IN Allocating(1,
               IF f = 1 THEN Throw(vec, 1)
               ELSE IF mt /\ f = 2
               THEN Releasing(newData, Throw(vec, 2))
               ELSE LET withNew == [newData EXCEPT ![vec.size + 1] = x]
                        tr == Transfer(t, vec.data, 0, vec.size, withNew, 0,
                                       1 + c1, f)
                    IN IF tr.thrown
                       THEN Releasing(tr.dst,
                               Throw([vec EXCEPT !.data = tr.src], tr.c))
                       ELSE Releasing(DestroyN(tr.src, 0, vec.size),
                               OkNew([data |-> tr.dst, size |-> vec.size + 1],
                                     tr.c)))

\* PopBack that destroys the last element and keeps size_.
PopBackKeepsSize(vec) ==
    Ok([data |-> DestroyN(vec.data, vec.size - 1, 1), size |-> vec.size], 0)

\* void PopBack() noexcept
PopBack(vec) ==
    Ok([data |-> DestroyN(vec.data, vec.size - 1, 1), size |-> vec.size - 1], 0)

\* Erase that pops the last element without shifting the tail.
EraseWithoutShift(vec, index, t, f) == Ok(PopBack(vec).v, 0)

\* iterator Erase(const_iterator pos), index = pos - cbegin()
Erase(vec, index, t, f) ==
    LET mv == MoveForward(vec.data, index + 2, index + 1, vec.size, 0, f,
                          ~t.nothrowMove)
    IN IF mv.thrown THEN Throw([vec EXCEPT !.data = mv.data], mv.c)
       ELSE LET p == PopBack([vec EXCEPT !.data = mv.data])
            IN Ok(p.v, mv.c)

\* In-place Emplace whose backward shift starts one element late.
EmplaceInPlaceShiftsLate(vec, index, x, ctorThrows, t, f) ==
    LET s == vec.size
        mt == ~t.nothrowMove
        c1 == IF ctorThrows THEN 1 ELSE 0
        c2 == IF mt THEN c1 + 1 ELSE c1
    IN IF ctorThrows /\ f = 1 THEN Throw(vec, 1)
       ELSE IF mt /\ f = c1 + 1 THEN Throw(vec, c1 + 1)
       ELSE LET d2 == [vec.data EXCEPT ![s + 1] = vec.data[s], ![s] = MovedFrom]
                mb == MoveBackward(d2, s - 1, s, index + 2, c2, f, mt)
            IN IF mb.thrown THEN Throw([vec EXCEPT !.data = mb.data], mb.c)
               ELSE IF mt /\ f = mb.c + 1
               THEN Throw([vec EXCEPT !.data = mb.data], mb.c + 1)
               ELSE Ok([data |-> [mb.data EXCEPT ![index + 1] = x],
                        size |-> s + 1],
                       IF mt THEN mb.c + 1 ELSE mb.c)

\* Emplace, size_ < Capacity(): the new value is built as a temporary, the
\* last element is move-constructed into slot size_, [index, size_ - 1) is
\* moved one slot later and the temporary is move-assigned into index.
EmplaceInPlace(vec, index, x, ctorThrows, t, f) ==
    LET s == vec.size
        mt == ~t.nothrowMove
        c1 == IF ctorThrows THEN 1 ELSE 0
        c2 == IF mt THEN c1 + 1 ELSE c1
    IN IF ctorThrows /\ f = 1 THEN Throw(vec, 1)
       ELSE IF mt /\ f = c1 + 1 THEN Throw(vec, c1 + 1)
       ELSE LET d2 == [vec.data EXCEPT ![s + 1] = vec.data[s], ![s] = MovedFrom]
                mb == MoveBackward(d2, s - 1, s, index + 1, c2, f, mt)
            IN IF mb.thrown THEN Throw([vec EXCEPT !.data = mb.data], mb.c)
               ELSE IF mt /\ f = mb.c + 1
               THEN Throw([vec EXCEPT !.data = mb.data], mb.c + 1)
               ELSE Ok([data |-> [mb.data EXCEPT ![index + 1] = x],
                        size |-> s + 1],
                       IF mt THEN mb.c + 1 ELSE mb.c)

\* Emplace, size_ == Capacity(): a block of twice the size is allocated, the
\* new element is constructed at index, then [0, index) and [index, size_)
\* are transferred, each inside its own try { } catch (...) { }.
EmplaceRealloc(vec, index, x, ctorThrows, t, f) ==
    LET s == vec.size
        newCapacity == IF s = 0 THEN 1 ELSE s * 2
        c1 == IF ctorThrows THEN 2 ELSE 1
    IN Allocating(1,
       IF f = 1 THEN Throw(vec, 1)
       ELSE IF ctorThrows /\ f = 2 
       THEN Releasing(NewRaw(newCapacity), Throw(vec, 2))
       ELSE LET n0 == [NewRaw(newCapacity) EXCEPT ![index + 1] = x]
                pre == Transfer(t, vec.data, 0, index, n0, 0, c1, f)
                \* catch (...) { std::destroy_at(new_data + index); }
                n1 == IF pre.thrown THEN DestroyN(pre.dst, index, 1) ELSE pre.dst
                suf == Transfer(t, pre.src, index, s - index, n1, index + 1,
                                pre.c, f)
                \* catch (...) { std::destroy(new_data, new_data + index + 1); }
                n2 == IF suf.thrown THEN DestroyN(suf.dst, 0, index + 1)
                      ELSE suf.dst
            IN Releasing(DestroyN(suf.src, 0, s),
                         OkNew([data |-> n2, size |-> s + 1], suf.c)))

\* Emplace that takes a new block for every insertion before the end.
EmplaceAlwaysReallocates(vec, index, x, ctorThrows, t, f) ==
    IF index = vec.size THEN EmplaceBack(vec, x, ctorThrows, t, f)
    ELSE EmplaceRealloc(vec, index, x, ctorThrows, t, f)

\* iterator Emplace(const_iterator pos, Args&&... args), index = pos - cbegin()
Emplace(vec, index, x, ctorThrows, t, f) ==
    IF index = vec.size THEN EmplaceBack(vec, x, ctorThrows, t, f)
    ELSE IF vec.size < Capacity(vec)
    THEN EmplaceInPlace(vec, index, x, ctorThrows, t, f)
    ELSE EmplaceRealloc(vec, index, x, ctorThrows, t, f)

\* Calls whose constructor argument is an element of the vector itself:
\* a = [j, move], the argument is v[j] (copied) or std::move(v[j]).  T(args)
\* reads data_[j] when it runs and, when it moves, leaves it moved-from.
ArgThrows(a, t) == IF a.move THEN ~t.nothrowMove ELSE TRUE

ReadArg(data, a) ==
    [val |-> data[a.j + 1],
     data |-> IF a.move THEN [data EXCEPT ![a.j + 1] = MovedFrom] ELSE data]

\* EmplaceBack(v[j]), PushBack(v[j]) and PushBack(std::move(v[j])).
EmplaceBackOf(vec, a, t, f) ==
    LET c1 == IF ArgThrows(a, t) THEN 1 ELSE 0
    IN IF vec.size < Capacity(vec)
       THEN IF ArgThrows(a, t) /\ f = 1 THEN Throw(vec, 1)
            ELSE LET rd == ReadArg(vec.data, a)
                 IN Ok([data |-> [rd.data EXCEPT ![vec.size + 1] = rd.val],
                        size |-> vec.size + 1], c1)
       ELSE LET newCapacity == IF vec.size = 0 THEN 1 ELSE vec.size * 2
                newData == NewRaw(newCapacity)
            IN Allocating(1,
               IF f = 1 THEN Throw(vec, 1)
               ELSE IF ArgThrows(a, t) /\ f = 2
               THEN Releasing(newData, Throw(vec, 2))
               ELSE LET rd == ReadArg(vec.data, a)
                        withNew == [newData EXCEPT ![vec.size + 1] = rd.val]
                        tr == Transfer(t, rd.data, 0, vec.size, withNew, 0,
                                       1 + c1, f)
                    IN IF tr.thrown
                       THEN Releasing(tr.dst,
                               Throw([vec EXCEPT !.data = tr.src], tr.c))
                       ELSE Releasing(DestroyN(tr.src, 0, vec.size),
                               OkNew([data |-> tr.dst, size |-> vec.size + 1],
                                     tr.c)))

\* In-place Emplace that builds the new value from its argument only after
\* the shift.
EmplaceInPlaceReadsLate(vec, index, a, t, f) ==
    LET s == vec.size
        mt == ~t.nothrowMove
        c2 == IF mt THEN 1 ELSE 0
    IN IF mt /\ f = 1 THEN Throw(vec, 1)
       ELSE LET d2 == [vec.data EXCEPT ![s + 1] = vec.data[s], ![s] = MovedFrom]
                mb == MoveBackward(d2, s - 1, s, index + 1, c2, f, mt)
            IN IF mb.thrown THEN Throw([vec EXCEPT !.data = mb.data], mb.c)
               ELSE IF ArgThrows(a, t) /\ f = mb.c + 1
               THEN Throw([vec EXCEPT !.data = mb.data], mb.c + 1)
               ELSE LET rd == ReadArg(mb.data, a)
                    IN Ok([data |-> [rd.data EXCEPT ![index + 1] = rd.val],
                           size |-> s + 1],
                          IF ArgThrows(a, t) THEN mb.c + 1 ELSE mb.c)

\* Emplace(pos, v[j]), size_ < Capacity(): T inserting_value_tmp(args) comes
\* first, then the shift, then the move-assignment of the temporary.
EmplaceInPlaceOf(vec, index, a, t, f) ==
    LET s == vec.size
        mt == ~t.nothrowMove
        c1 == IF ArgThrows(a, t) THEN 1 ELSE 0
        c2 == IF mt THEN c1 + 1 ELSE c1
    IN IF ArgThrows(a, t) /\ f = 1 THEN Throw(vec, 1)
       ELSE LET rd == ReadArg(vec.data, a)
            IN IF mt /\ f = c1 + 1
               THEN Throw([vec EXCEPT !.data = rd.data], c1 + 1)
               ELSE LET d2 == [rd.data EXCEPT ![s + 1] = rd.data[s],
                                              ![s] = MovedFrom]
                        mb == MoveBackward(d2, s - 1, s, index + 1, c2, f, mt)
                    IN IF mb.thrown
                       THEN Throw([vec EXCEPT !.data = mb.data], mb.c)
                       ELSE IF mt /\ f = mb.c + 1
                       THEN Throw([vec EXCEPT !.data = mb.data], mb.c + 1)
                       ELSE Ok([data |-> [mb.data EXCEPT ![index + 1] = rd.val],
                                size |-> s + 1],
                               IF mt THEN mb.c + 1 ELSE mb.c)

\* Emplace(pos, v[j]), size_ == Capacity(): the new element is constructed
\* in the new block before any old element is transferred.
EmplaceReallocOf(vec, index, a, t, f) ==
    LET s == vec.size
        newCapacity == IF s = 0 THEN 1 ELSE s * 2
        c1 == IF ArgThrows(a, t) THEN 2 ELSE 1
    IN Allocating(1,
       IF f = 1 THEN Throw(vec, 1)
       ELSE IF ArgThrows(a, t) /\ f = 2 
       THEN Releasing(NewRaw(newCapacity), Throw(vec, 2))
       ELSE LET rd == ReadArg(vec.data, a)
                n0 == [NewRaw(newCapacity) EXCEPT ![index + 1] = rd.val]
                pre == Transfer(t, rd.data, 0, index, n0, 0, c1, f)
                n1 == IF pre.thrown THEN DestroyN(pre.dst, index, 1) ELSE pre.dst
                suf == Transfer(t, pre.src, index, s - index, n1, index + 1,
                                pre.c, f)
                n2 == IF suf.thrown THEN DestroyN(suf.dst, 0, index + 1)
                      ELSE suf.dst
            IN Releasing(DestroyN(suf.src, 0, s),
                         OkNew([data |-> n2, size |-> s + 1], suf.c)))

\* Emplace(pos, v[j]), Insert(pos, v[j]) and Insert(pos, std::move(v[j])).
EmplaceOf(vec, index, a, t, f) ==
    IF index = vec.size THEN EmplaceBackOf(vec, a, t, f)
    ELSE IF vec.size < Capacity(vec)
    THEN EmplaceInPlaceOf(vec, index, a, t, f)
    ELSE EmplaceReallocOf(vec, index, a, t, f)

\* iterator Insert(const_iterator pos, const T& value)
Insert(vec, index, x, t, f) == Emplace(vec, index, x, TRUE, t, f)

\* iterator Insert(const_iterator pos, T&& value)
InsertMove(vec, index, x, t, f) == Emplace(vec, index, x, ~t.nothrowMove, t, f)

\* explicit Vector(size_t size); when it throws no object exists.
SizedCtor(n, f) ==
    LET c1 == IF AllocCanThrow(n) THEN 1 ELSE 0
    IN Allocating(c1,
       IF AllocCanThrow(n) /\ f = 1 THEN Throw(EmptyVec, 1)
       ELSE LET vc == UninitValueConstructN(NewRaw(n), 0, n, c1, f)
            IN IF vc.thrown THEN Releasing(vc.dst, Throw(EmptyVec, vc.c))
               ELSE IF AllocCanThrow(n)
               THEN OkNew([data |-> vc.dst, size |-> n], vc.c)
               ELSE Ok([data |-> vc.dst, size |-> n], vc.c))

\* Copy construction that allocates the capacity of the source.
CopyCtorKeepsCapacity(other, f) ==
    LET c1 == IF AllocCanThrow(Capacity(other)) THEN 1 ELSE 0
    IN Allocating(c1,
       IF AllocCanThrow(Capacity(other)) /\ f = 1 THEN Throw(EmptyVec, 1)
       ELSE LET cp == UninitCopyN(other.data, 0, other.size,
                                  NewRaw(Capacity(other)), 0, c1, f)
            IN IF cp.thrown THEN Releasing(cp.dst, Throw(EmptyVec, cp.c))
               ELSE IF AllocCanThrow(Capacity(other))
               THEN OkNew([data |-> cp.dst, size |-> other.size], cp.c)
               ELSE Ok([data |-> cp.dst, size |-> other.size], cp.c))

\* Vector(const Vector& other)
CopyCtor(other, f) ==
    LET c1 == IF AllocCanThrow(other.size) THEN 1 ELSE 0
    IN Allocating(c1,
       IF AllocCanThrow(other.size) /\ f = 1 THEN Throw(EmptyVec, 1)
       ELSE LET cp == UninitCopyN(other.data, 0, other.size,
                                  NewRaw(other.size), 0, c1, f)
            IN IF cp.thrown THEN Releasing(cp.dst, Throw(EmptyVec, cp.c))
               ELSE IF AllocCanThrow(other.size)
               THEN OkNew([data |-> cp.dst, size |-> other.size], cp.c)
               ELSE Ok([data |-> cp.dst, size |-> other.size], cp.c))

\* void Swap(Vector& other) noexcept: v is *this afterwards, o is other.
Swap(this, other) == [v |-> other, o |-> this]

\* Vector(Vector&& other) noexcept: swaps with the members' initial values.
MoveCtor(other) == Swap(EmptyVec, other)

\* Move assignment that leaves the source empty.
MoveAssignResetsSource(this, rhs, same) ==
    IF ~same THEN [v |-> rhs, o |-> EmptyVec] ELSE [v |-> this, o |-> rhs]

\* Vector& operator=(Vector&& rhs) noexcept
MoveAssign(this, rhs, same) ==
    IF ~same THEN Swap(this, rhs) ELSE [v |-> this, o |-> rhs]

\* Copy assignment that empties *this before it copies rhs.
CopyAssignClearsFirst(this, rhs, same, f) ==
    IF same THEN Ok(this, 0)
    ELSE LET cleared == [data |-> DestroyN(this.data, 0, this.size), size |-> 0]
             uc == UninitCopyN(rhs.data, 0, rhs.size,
                               IF Capacity(this) < rhs.size
                               THEN NewRaw(rhs.size) ELSE cleared.data,
                               0, IF Capacity(this) < rhs.size THEN 1 ELSE 0, f)
         IN Allocating(IF Capacity(this) < rhs.size THEN 1 ELSE 0,
               IF Capacity(this) < rhs.size /\ f = 1 THEN Throw(cleared, 1)
               ELSE IF uc.thrown THEN Throw(cleared, uc.c)
               ELSE IF Capacity(this) < rhs.size
               THEN OkNew([data |-> uc.dst, size |-> rhs.size], uc.c)
               ELSE Ok([data |-> uc.dst, size |-> rhs.size], uc.c))

\* Copy assignment that does not destroy the surplus tail of *this.
CopyAssignKeepsTail(this, rhs, same, f) ==
    IF same THEN Ok(this, 0)
    ELSE IF Capacity(this) < rhs.size
    THEN LET rhsCopy == CopyCtor(rhs, f)
         IN Allocating(rhsCopy.alloc,
               IF rhsCopy.res = "throw"
               THEN Releasing(rhsCopy.freed, Throw(this, rhsCopy.c))
               ELSE Releasing(DestroyN(this.data, 0, this.size),
                              OkNew(Swap(this, rhsCopy.v).v, rhsCopy.c)))
    ELSE IF this.size > rhs.size
    THEN LET cp == CopyN(rhs.data, rhs.size, this.data, 0, f)
         IN IF cp.thrown THEN Throw([this EXCEPT !.data = cp.dst], cp.c)
            ELSE Ok([data |-> cp.dst, size |-> rhs.size], cp.c)
    ELSE LET cp == CopyN(rhs.data, this.size, this.data, 0, f)
         IN IF cp.thrown THEN Throw([this EXCEPT !.data = cp.dst], cp.c)
            ELSE LET uc == UninitCopyN(rhs.data, this.size,
                                       rhs.size - this.size, cp.dst,
                                       this.size, cp.c, f)
                 IN IF uc.thrown THEN Throw([this EXCEPT !.data = uc.dst], uc.c)
                    ELSE Ok([data |-> uc.dst, size |-> rhs.size], uc.c)

\* Copy assignment that always copies and swaps.
CopyAssignAlwaysSwaps(this, rhs, same, f) ==
    IF same THEN Ok(this, 0)
    ELSE LET rhsCopy == CopyCtor(rhs, f)
         IN Allocating(rhsCopy.alloc,
               IF rhsCopy.res = "throw"
               THEN Releasing(rhsCopy.freed, Throw(this, rhsCopy.c))
               ELSE Releasing(DestroyN(this.data, 0, this.size),
                              OkNew(Swap(this, rhsCopy.v).v, rhsCopy.c)))

\* Vector& operator=(const Vector& rhs); same: this == &rhs.
CopyAssign(this, rhs, same, f) ==
    IF same THEN Ok(this, 0)
    ELSE IF Capacity(this) < rhs.size
    THEN LET rhsCopy == CopyCtor(rhs, f)
         IN Allocating(rhsCopy.alloc,
               IF rhsCopy.res = "throw"
               THEN Releasing(rhsCopy.freed, Throw(this, rhsCopy.c))
               ELSE Releasing(DestroyN(this.data, 0, this.size),
                              OkNew(Swap(this, rhsCopy.v).v, rhsCopy.c)))
    ELSE IF this.size > rhs.size
    THEN LET cp == CopyN(rhs.data, rhs.size, this.data, 0, f)
         IN IF cp.thrown THEN Throw([this EXCEPT !.data = cp.dst], cp.c)
            ELSE Ok([data |-> DestroyN(cp.dst, rhs.size, this.size - rhs.size),
                     size |-> rhs.size], cp.c)
    ELSE LET cp == CopyN(rhs.data, this.size, this.data, 0, f)
         IN IF cp.thrown THEN Throw([this EXCEPT !.data = cp.dst], cp.c)
            ELSE LET uc == UninitCopyN(rhs.data, this.size,
                                       rhs.size - this.size, cp.dst,
                                       this.size, cp.c, f)
                 IN IF uc.thrown THEN Throw([this EXCEPT !.data = uc.dst], uc.c)
                    ELSE Ok([data |-> uc.dst, size |-> rhs.size], uc.c)

\* ~Vector(): std::destroy_n(data_, size_) needs an object in every slot of
\* [0, size_); anything else is undefined behaviour.
Destructible(vec) ==
    /\ vec.size <= Capacity(vec)
    /\ \A k \in 1..vec.size : vec.data[k] # Raw

\* Vector() = default
DefaultCtor == Ok(EmptyVec, 0)

-----------------------------------------------------------------------------
\* The program: calls of the public operations.  v[1] is the vector the
\* element operations are called on; v[2] is the other vector of the
\* operations that take two (copy and move construction and assignment, Swap),
\* which are called in both directions.

Vecs == {1, 2}
Other(i) == 3 - i

\* The representation a Vector is meant to have: objects in exactly the slots
\* [0, size).  A vector whose representation is broken is not operated on
\* any further.
Valid(vec) ==
    /\ vec.size <= Capacity(vec)
    /\ \A k \in 1..Capacity(vec) : (k <= vec.size) <=> (vec.data[k] # Raw)

\* The model stops growing at MaxCap slots in the two blocks together.
Fits(i, vec) == Capacity(vec) + Capacity(v[Other(i)]) <= MaxCap

\* An operation whose constructor arguments are copies needs a copyable T.
Copyable == ty.copyable

\* One call on v[i] with fault index f and result r of the operation.
Call(i, r, f) ==
    /\ Fits(i, r.v)
    /\ v' = [v EXCEPT ![i] = r.v]
    /\ swallowed' = (f >= 1 /\ f <= r.c /\ r.res = "ok")
    /\ UNCHANGED <<ty, appends, relocs>>

\* One call that exchanges buffers: r.v is v[i] afterwards, r.o is v[j].
Call2(i, j, r) ==
    /\ v' = [v EXCEPT ![i] = r.v, ![j] = r.o]
    /\ swallowed' = FALSE
    /\ UNCHANGED <<ty, appends, relocs>>

Init ==
    /\ v = [i \in Vecs |-> EmptyVec]
    /\ ty \in ElemTypes
    /\ swallowed = FALSE
    /\ appends = 0
    /\ relocs = 0

\* Vector<T> w(n) in place of an empty vector
DoSizedCtor ==
    \E n \in 0..MaxCap :
        /\ v[1] = EmptyVec
        /\ \E f \in 0..SizedCtor(n, 0).c :
              Call(1, SizedCtor(n, f), f)

\* Vector<T> w(v[j]) in place of an empty vector
DoCopyCtor ==
    \E i \in Vecs :
        LET j == Other(i)
        IN /\ v[i] = EmptyVec /\ Valid(v[j]) /\ Copyable
           /\ \E f \in 0..CopyCtor(v[j], 0).c :
                 Call(i, CopyCtor(v[j], f), f)

\* Vector<T> w(std::move(v[j])) in place of an empty vector
DoMoveCtor ==
    \E i \in Vecs :
        /\ v[i] = EmptyVec /\ Valid(v[Other(i)])
        /\ Call2(i, Other(i), MoveCtor(v[Other(i)]))

\* v[i] goes out of scope and an empty vector takes its place
DoDestroy ==
    \E i \in Vecs :
        /\ Valid(v[i]) /\ v[i] # EmptyVec
        /\ Call(i, DefaultCtor, 0)

DoCopyAssign ==
    \E i \in Vecs, j \in Vecs :
        /\ Valid(v[i]) /\ Valid(v[j]) /\ Copyable
        /\ \E f \in 0..CopyAssign(v[i], v[j], i = j, 0).c :
              Call(i, CopyAssign(v[i], v[j], i = j, f), f)

DoMoveAssign ==
    \E i \in Vecs, j \in Vecs :
        /\ Valid(v[i]) /\ Valid(v[j])
        /\ IF i = j
           THEN Call(i, Ok(MoveAssign(v[i], v[i], TRUE).v, 0), 0)
           ELSE Call2(i, j, MoveAssign(v[i], v[j], FALSE))

DoSwap ==
    /\ Valid(v[1]) /\ Valid(v[2])
    /\ Call2(1, 2, Swap(v[1], v[2]))

DoReserve ==
    \E n \in 0..MaxCap :
        /\ Valid(v[1])
        /\ \E f \in 0..Reserve(v[1], n, ty, 0).c :
              Call(1, Reserve(v[1], n, ty, f), f)

DoResize ==
    \E n \in 0..MaxCap :
        /\ Valid(v[1])
        /\ \E f \in 0..Resize(v[1], n, ty, 0).c :
              Call(1, Resize(v[1], n, ty, f), f)

DoEmplaceBack ==
    \E x \in Values :
        /\ Valid(v[1])
        /\ \E f \in 0..EmplaceBack(v[1], x, TRUE, ty, 0).c :
              Call(1, EmplaceBack(v[1], x, TRUE, ty, f), f)

DoPushBack ==
    \E x \in Values :
        /\ Valid(v[1]) /\ Copyable
        /\ \E f \in 0..PushBack(v[1], x, ty, 0).c :
              Call(1, PushBack(v[1], x, ty, f), f)

DoPushBackMove ==
    \E x \in Values :
        /\ Valid(v[1])
        /\ \E f \in 0..PushBackMove(v[1], x, ty, 0).c :
              Call(1, PushBackMove(v[1], x, ty, f), f)

\* PopBack on an empty vector is outside its precondition.
DoPopBack ==
    /\ Valid(v[1]) /\ v[1].size > 0
    /\ Call(1, PopBack(v[1]), 0)

\* pos is in [cbegin(), cend()].
DoEmplace ==
    \E x \in Values :
        \E p \in 0..v[1].size :
            /\ Valid(v[1])
            /\ \E f \in 0..Emplace(v[1], p, x, TRUE, ty, 0).c :
                  Call(1, Emplace(v[1], p, x, TRUE, ty, f), f)

DoInsert ==
    \E x \in Values :
        \E p \in 0..v[1].size :
            /\ Valid(v[1]) /\ Copyable
            /\ \E f \in 0..Insert(v[1], p, x, ty, 0).c :
                  Call(1, Insert(v[1], p, x, ty, f), f)

DoInsertMove ==
    \E x \in Values :
        \E p \in 0..v[1].size :
            /\ Valid(v[1])
            /\ \E f \in 0..InsertMove(v[1], p, x, ty, 0).c :
                  Call(1, InsertMove(v[1], p, x, ty, f), f)

\* pos is in [cbegin(), cend()).
DoErase ==
    \E p \in 0..(v[1].size - 1) :
        /\ Valid(v[1])
        /\ \E f \in 0..Erase(v[1], p, ty, 0).c :
              Call(1, Erase(v[1], p, ty, f), f)

Next ==
    \/ DoSizedCtor
    \/ DoCopyCtor
    \/ DoMoveCtor
    \/ DoDestroy
    \/ DoCopyAssign
    \/ DoMoveAssign
    \/ DoSwap
    \/ DoReserve
    \/ DoResize
    \/ DoEmplaceBack
    \/ DoPushBack
    \/ DoPushBackMove
    \/ DoPopBack
    \/ DoEmplace
    \/ DoInsert
    \/ DoInsertMove
    \/ DoErase

Spec == Init /\ [][Next]_vars

\* The program that works on v[1] alone: v[2] stays the empty vector.
NextSingle ==
    \/ DoSizedCtor
    \/ DoDestroy
    \/ DoReserve
    \/ DoResize
    \/ DoEmplaceBack
    \/ DoPushBack
    \/ DoPushBackMove
    \/ DoPopBack
    \/ DoEmplace
    \/ DoInsert
    \/ DoInsertMove
    \/ DoErase

SpecSingle == Init /\ [][NextSingle]_vars

\* The program without the operations that exchange buffers (Swap, move
\* construction, move assignment) and without destruction: each vector is
\* constructed once and then only modified.
NextNoExchange ==
    \/ DoSizedCtor
    \/ DoCopyCtor
    \/ DoCopyAssign
    \/ DoReserve
    \/ DoResize
    \/ DoEmplaceBack
    \/ DoPushBack
    \/ DoPushBackMove
    \/ DoPopBack
    \/ DoEmplace
    \/ DoInsert
    \/ DoInsertMove
    \/ DoErase

SpecNoExchange == Init /\ [][NextNoExchange]_vars

\* The program that only appends to v[1], starting from the empty vector, for
\* an element type whose move is noexcept.

\* The old elements an append transfers into a new block: none when the new
\* element fits (size_ < Capacity()), else size_ of them, moved by
\* uninitialized_move_n once the allocation and the construction of the new
\* element are through (r is what the call returns).
AppendRelocations(vec, r) ==
    IF vec.size < Capacity(vec) THEN 0
    ELSE IF r.res = "ok" THEN vec.size
    ELSE 0

\* One append call on v[1] with result r.
CountedAppend(r, f) ==
    /\ appends < MaxAppends
    /\ v' = [v EXCEPT ![1] = r.v]
    /\ swallowed' = (f >= 1 /\ f <= r.c /\ r.res = "ok")
    /\ appends' = appends + 1
    /\ relocs' = relocs + AppendRelocations(v[1], r)
    /\ UNCHANGED ty

AppendEmplaceBack ==
    \E x \in Values :
        \E f \in 0..EmplaceBack(v[1], x, TRUE, ty, 0).c :
            CountedAppend(EmplaceBack(v[1], x, TRUE, ty, f), f)

AppendPushBack ==
    \E x \in Values :
        /\ Copyable
        /\ \E f \in 0..PushBack(v[1], x, ty, 0).c :
              CountedAppend(PushBack(v[1], x, ty, f), f)

AppendPushBackMove ==
    \E x \in Values :
        \E f \in 0..PushBackMove(v[1], x, ty, 0).c :
            CountedAppend(PushBackMove(v[1], x, ty, f), f)

InitAppend == Init /\ ty.nothrowMove

NextAppend ==
    \/ AppendEmplaceBack
    \/ AppendPushBack
    \/ AppendPushBackMove

SpecAppend == InitAppend /\ [][NextAppend]_vars

-----------------------------------------------------------------------------
\* The calls that can be made in a state and what each returns:
\* [op, arg, x, f, r].  ops: the operations wanted; F: the fault indices
\* wanted (see FaultsFor).

Mk(name, arg, x, f, r) == [op |-> name, arg |-> arg, x |-> x, f |-> f, r |-> r]

\* The fault indices of a call whose run without a fault returns r0:
\* AllFaults is every index that changes what the call does, and 0; NoFault
\* is 0; AllocFault is the index of the call's allocation.
AllFaults == "all"
NoFault == "none"
AllocFault == "alloc"

FaultsFor(F, r0) ==
    CASE F = AllFaults -> 0..r0.c
      [] F = NoFault -> {0}
      [] F = AllocFault -> IF r0.alloc = 0 THEN {} ELSE {r0.alloc}

\* Some step of the call threw: step f was executed.
Faulted(c) == c.f >= 1 /\ c.f <= c.r.c

AppendOps == {"EmplaceBack", "PushBack", "PushBackMove"}
InsertOps == {"Emplace", "Insert", "InsertMove"}
ElementOps == AppendOps \cup InsertOps \cup {"Reserve", "Resize", "PopBack", "Erase"}
WholeOps == {"SizedCtor", "CopyCtor", "CopyAssign"}

\* What the named operation returns on vec: arg is n or the position.
Run(name, vec, arg, x, t, f) ==
    CASE name = "Reserve" -> Reserve(vec, arg, t, f)
      [] name = "Resize" -> Resize(vec, arg, t, f)
      [] name = "EmplaceBack" -> EmplaceBack(vec, x, TRUE, t, f)
      [] name = "PushBack" -> PushBack(vec, x, t, f)
      [] name = "PushBackMove" -> PushBackMove(vec, x, t, f)
      [] name = "PopBack" -> PopBack(vec)
      [] name = "Emplace" -> Emplace(vec, arg, x, TRUE, t, f)
      [] name = "Insert" -> Insert(vec, arg, x, t, f)
      [] name = "InsertMove" -> InsertMove(vec, arg, x, t, f)
      [] name = "Erase" -> Erase(vec, arg, t, f)

\* The arguments the operation can be called with on vec, as <<arg, x>>,
\* within its precondition and T's capabilities.
ArgsOf(name, vec, t) ==
    CASE name \in {"Reserve", "Resize"} -> (0..MaxCap) \X {0}
      [] name \in {"EmplaceBack", "PushBackMove"} -> {vec.size} \X Values
      [] name = "PushBack" ->
            IF t.copyable THEN {vec.size} \X Values ELSE {}
      [] name = "PopBack" -> IF vec.size > 0 THEN {<<0, 0>>} ELSE {}
      [] name \in {"Emplace", "InsertMove"} -> (0..vec.size) \X Values
      [] name = "Insert" ->
            IF t.copyable THEN (0..vec.size) \X Values ELSE {}
      [] name = "Erase" -> (0..(vec.size - 1)) \X {0}

\* The calls of the element operations in ops on vec.
ElementCalls(vec, t, ops, F) ==
    UNION { UNION { { Mk(name, a[1], a[2], f, Run(name, vec, a[1], a[2], t, f)) :
                        f \in FaultsFor(F, Run(name, vec, a[1], a[2], t, 0)) } :
                    a \in ArgsOf(name, vec, t) } :
            name \in ops \cap ElementOps }

\* The calls that construct a vector in place of this or copy-assign to this
\* from rhs (arg 0) or from itself (arg 1); a constructor's arg is n.
WholeCalls(this, rhs, t, ops, F) ==
    (IF "SizedCtor" \in ops /\ this = EmptyVec
     THEN UNION { { Mk("SizedCtor", n, 0, f, SizedCtor(n, f)) :
                        f \in FaultsFor(F, SizedCtor(n, 0)) } : n \in 0..MaxCap }
     ELSE {})
    \cup (IF "CopyCtor" \in ops /\ this = EmptyVec /\ t.copyable
          THEN { Mk("CopyCtor", 0, 0, f, CopyCtor(rhs, f)) :
                    f \in FaultsFor(F, CopyCtor(rhs, 0)) }
          ELSE {})
    \cup (IF "CopyAssign" \in ops /\ t.copyable
          THEN { Mk("CopyAssign", 0, 0, f, CopyAssign(this, rhs, FALSE, f)) :
                    f \in FaultsFor(F, CopyAssign(this, rhs, FALSE, 0)) }
               \cup { Mk("CopyAssign", 1, 0, f, CopyAssign(this, this, TRUE, f)) :
                    f \in FaultsFor(F, CopyAssign(this, this, TRUE, 0)) }
          ELSE {})

\* The calls of the operations in ops that can be made on v[i].  Every pair
\* of vectors is reached in both orders (DoSwap), so the calls on v[1], with
\* v[2] as the other vector, are the calls on either.
Calls(i, ops, F) ==
    IF Valid(v[i])
    THEN ElementCalls(v[i], ty, ops, F)
         \cup (IF Valid(v[Other(i)])
               THEN WholeCalls(v[i], v[Other(i)], ty, ops, F) ELSE {})
    ELSE {}

-----------------------------------------------------------------------------
\* Properties

\* C1: in every reachable state, also after a call that failed, the size of
\* each vector is between 0 and its capacity.
SizeWithinCapacity ==
    \A i \in Vecs : 0 <= Size(v[i]) /\ Size(v[i]) <= Capacity(v[i])

\* A full vector next to one with spare capacity, both holding elements.
SizeWithinCapacityWitness ==
    /\ Size(v[1]) = Capacity(v[1]) /\ Size(v[1]) >= 2
    /\ Size(v[2]) >= 1 /\ Size(v[2]) < Capacity(v[2])

\* C2: in every reachable state each slot in [0, size) holds an object and
\* each slot in [size, capacity) holds none, so the vector can be destroyed.
SlotsLiveExactlyBelowSize == \A i \in Vecs : Valid(v[i])

\* C3: a call in which an allocation or an element operation threw does not
\* return normally: the exception leaves the call.
NoFailureSwallowed == ~swallowed

\* C4: for a copyable element type whose move may throw, a reallocating
\* EmplaceBack or PushBack, or a Reserve beyond the capacity, in which the
\* construction of the new element or any copy of an old element throws,
\* throws to the caller and leaves size, capacity and elements as they were.
IsGrowth(c, vec) ==
    \/ c.op \in AppendOps /\ Size(vec) = Capacity(vec)
    \/ c.op = "Reserve" /\ c.arg > Capacity(vec)

GrowthStrongGuarantee ==
    (ty.copyable /\ ~ty.nothrowMove) =>
        \A c \in Calls(1, AppendOps \cup {"Reserve"}, AllFaults) :
            (IsGrowth(c, v[1]) /\ Faulted(c)) =>
                c.r.res = "throw" /\ c.r.v = v[1]

\* A full vector <<1, _>> of such a type, on which PushBack throws while
\* copying the second old element into the new block.
GrowthStrongGuaranteeWitness ==
    /\ ty.copyable /\ ~ty.nothrowMove
    /\ Valid(v[1]) /\ Size(v[1]) = 2 /\ Capacity(v[1]) = 2 /\ v[1].data[1] = 1
    /\ \E c \in Calls(1, {"PushBack"}, AllFaults) :
          c.f = 4 /\ Faulted(c) /\ c.r.res = "throw"

\* C5: for an element type with a non-throwing move or a copy constructor, a
\* Resize(n), n > size, that fails leaves size, capacity and elements as
\* they were before the call.
ResizeGrowStrongGuarantee ==
    (ty.nothrowMove \/ ty.copyable) =>
        \A c \in Calls(1, {"Resize"}, AllFaults) :
            (c.arg > Size(v[1]) /\ Faulted(c)) =>
                c.r.res = "throw" /\ c.r.v = v[1]

\* C6: a copy assignment to a vector whose capacity is less than the size of
\* the source, in which the duplication of the source fails, throws and
\* leaves the destination as it was.
CopyAndSwapStrongGuarantee ==
    Capacity(v[1]) < Size(v[2]) =>
        \A c \in Calls(1, {"CopyAssign"}, AllFaults) :
            (c.arg = 0 /\ Faulted(c)) =>
                c.r.res = "throw" /\ c.r.v = v[1]

\* A destination holding an element, too small for the source, and a copy
\* assignment that throws on the second element copy.
CopyAndSwapStrongGuaranteeWitness ==
    /\ Size(v[1]) >= 1 /\ Capacity(v[1]) < Size(v[2])
    /\ \E c \in Calls(1, {"CopyAssign"}, AllFaults) :
          c.arg = 0 /\ c.f = 3 /\ Faulted(c) /\ c.r.res = "throw"

\* C7: every call that requests storage requests it before it changes the
\* destination: when the allocation is the step that throws, the call throws
\* and the destination is as before.
RequestsStorage(c, vec, rhs) ==
    \/ c.op = "SizedCtor" /\ c.arg # 0
    \/ c.op = "CopyCtor" /\ Size(rhs) # 0
    \/ c.op = "CopyAssign" /\ c.arg = 0 /\ Capacity(vec) < Size(rhs)
    \/ c.op \in {"Reserve", "Resize"} /\ c.arg > Capacity(vec)
    \/ c.op \in AppendOps \cup InsertOps /\ Size(vec) = Capacity(vec)

AllocationFailureChangesNothing ==
    /\ \A c \in Calls(1, ElementOps \cup WholeOps, NoFault) :
          RequestsStorage(c, v[1], v[2]) <=> c.r.alloc # 0
    /\ \A c \in Calls(1, ElementOps \cup WholeOps, AllocFault) :
          c.r.res = "throw" /\ c.r.v = v[1]

\* A full vector of two elements on which the allocation of a reallocating
\* Emplace in the middle fails.
AllocationFailureChangesNothingWitness ==
    /\ Size(v[1]) = 2 /\ Capacity(v[1]) = 2
    /\ \E c \in Calls(1, {"Emplace"}, AllocFault) :
          c.arg = 1 /\ c.f = 1 /\ c.r.res = "throw"

\* The sequence with x placed at offset p, and the one with offset p removed.
InsertAt(seq, p, x) == SubSeq(seq, 1, p) \o <<x>> \o SubSeq(seq, p + 1, Len(seq))
RemoveAt(seq, p) == SubSeq(seq, 1, p) \o SubSeq(seq, p + 2, Len(seq))

\* C8: an Insert or Emplace of x at position p in which nothing throws
\* returns with size + 1 elements: the old ones before p unchanged, x at p,
\* the old ones from p on one slot later, in order.
InsertPlacesElement ==
    \A c \in Calls(1, InsertOps, NoFault) :
        /\ c.r.res = "ok"
        /\ Size(c.r.v) = Size(v[1]) + 1
        /\ Elems(c.r.v) = InsertAt(Elems(v[1]), c.arg, c.x)

\* A full vector <<a, b>>, a # b, and the reallocating Emplace at position 1.
InsertPlacesElementWitness ==
    /\ Size(v[1]) = 2 /\ Capacity(v[1]) = 2 /\ v[1].data[1] # v[1].data[2]
    /\ \E c \in Calls(1, {"Emplace"}, NoFault) :
          /\ c.arg = 1 /\ c.r.alloc # 0
          /\ Elems(c.r.v) = <<v[1].data[1], c.x, v[1].data[2]>>

\* C9: an Erase at position p in which nothing throws returns with size - 1
\* elements and the same capacity: the old elements without the one at p.
EraseRemovesOne ==
    \A c \in Calls(1, {"Erase"}, NoFault) :
        /\ c.r.res = "ok"
        /\ Size(c.r.v) = Size(v[1]) - 1
        /\ Capacity(c.r.v) = Capacity(v[1])
        /\ Elems(c.r.v) = RemoveAt(Elems(v[1]), c.arg)

\* A vector of three elements whose first two differ, and the Erase of the
\* first.
EraseRemovesOneWitness ==
    /\ Size(v[1]) = 3 /\ v[1].data[1] # v[1].data[2]
    /\ \E c \in Calls(1, {"Erase"}, NoFault) : c.arg = 0 /\ Size(c.r.v) = 2

\* C10 as stated: Erase at position 1 of <<a, b, c>> yields <<b, c>>.
EraseAtOneYieldsTail ==
    (Valid(v[1]) /\ Size(v[1]) = 3) =>
        LET r == Erase(v[1], 1, ty, 0)
        IN Size(r.v) = 2 /\ Elems(r.v) = <<v[1].data[2], v[1].data[3]>>

\* C10, amended: Erase at position 1 (the offset from begin()) of <<a, b, c>>
\* yields <<a, c>> with size 2.
EraseAtOneYieldsFirstAndThird ==
    (Valid(v[1]) /\ Size(v[1]) = 3) =>
        LET r == Erase(v[1], 1, ty, 0)
        IN /\ r.res = "ok"
           /\ Size(r.v) = 2
           /\ Elems(r.v) = <<v[1].data[1], v[1].data[3]>>

\* A vector <<a, b, c>> with a # b and b # c.
EraseAtOneWitness ==
    /\ Valid(v[1]) /\ Size(v[1]) = 3
    /\ v[1].data[1] # v[1].data[2] /\ v[1].data[2] # v[1].data[3]
    /\ Elems(Erase(v[1], 1, ty, 0).v) = <<v[1].data[1], v[1].data[3]>>

\* C11: an append or an Insert/Emplace on a vector with size < capacity
\* allocates nothing and leaves the capacity unchanged; on one with
\* size == capacity a call in which nothing throws makes the capacity 1 if it
\* was 0 and twice the previous capacity otherwise.
GrowthPolicy ==
    \A c \in Calls(1, AppendOps \cup InsertOps, AllFaults) :
        IF Size(v[1]) < Capacity(v[1])
        THEN c.r.alloc = 0 /\ Capacity(c.r.v) = Capacity(v[1])
        ELSE /\ c.r.alloc # 0
             /\ c.f = 0 =>
                   Capacity(c.r.v) =
                       IF Capacity(v[1]) = 0 THEN 1 ELSE 2 * Capacity(v[1])

\* A vector filled up to the capacity 3 that Reserve or a constructor gave
\* it: the next EmplaceBack makes the capacity 6.
GrowthPolicyWitness ==
    /\ Size(v[1]) = 3 /\ Capacity(v[1]) = 3
    /\ \E c \in Calls(1, {"EmplaceBack"}, NoFault) : Capacity(c.r.v) = 6

\* C12: Insert/Emplace at the end position does what PushBack/EmplaceBack of
\* the same value does: the same elements, size and capacity, and, when a
\* step throws, the same failure with the same vector left behind.
InsertAtEndIsAppend ==
    Valid(v[1]) =>
        \A x \in Values, f \in 0..(Size(v[1]) + 2) :
            /\ Emplace(v[1], Size(v[1]), x, TRUE, ty, f)
                  = EmplaceBack(v[1], x, TRUE, ty, f)
            /\ ty.copyable =>
                  Insert(v[1], Size(v[1]), x, ty, f) = PushBack(v[1], x, ty, f)
            /\ InsertMove(v[1], Size(v[1]), x, ty, f)
                  = PushBackMove(v[1], x, ty, f)

\* A full vector holding a non-zero element, of a copyable type: Insert at
\* the end reallocates, and fails when the copy of the new value throws.
InsertAtEndIsAppendWitness ==
    /\ ty.copyable /\ Valid(v[1])
    /\ Size(v[1]) = 2 /\ Capacity(v[1]) = 2 /\ v[1].data[1] = 1
    /\ Insert(v[1], 2, 1, ty, 0).v.data = <<1, v[1].data[2], 1, Raw>>
    /\ Insert(v[1], 2, 1, ty, 2).res = "throw"

\* C13: move construction gives the new vector the source's block, size and
\* elements and leaves the source with size 0 and capacity 0; move assignment
\* between two vectors exchanges their blocks and sizes; move assignment to
\* itself changes nothing.  The slots are handed over as they are.
MovesExchangeOwnership ==
    (Valid(v[1]) /\ Valid(v[2])) =>
        /\ MoveCtor(v[2]).v = v[2]
        /\ Size(MoveCtor(v[2]).o) = 0 /\ Capacity(MoveCtor(v[2]).o) = 0
        /\ MoveAssign(v[1], v[2], FALSE).v = v[2]
        /\ MoveAssign(v[1], v[2], FALSE).o = v[1]
        /\ MoveAssign(v[1], v[1], TRUE).v = v[1]

\* Two vectors that hold elements and differ in size and in capacity.
MovesExchangeOwnershipWitness ==
    /\ Valid(v[1]) /\ Valid(v[2])
    /\ Size(v[1]) >= 1 /\ Size(v[2]) > Size(v[1])
    /\ Capacity(v[2]) > Capacity(v[1])
    /\ MoveAssign(v[1], v[2], FALSE).o = v[1]

\* What Vector b(a) returns for a = v[2]: a's size, the capacity a.size, a's
\* element values, in a block the constructor allocated.
CopyCtorResult ==
    (Copyable /\ Valid(v[2])) =>
        LET r == CopyCtor(v[2], 0)
        IN /\ r.res = "ok"
           /\ Size(r.v) = Size(v[2])
           /\ Capacity(r.v) = Size(v[2])
           /\ Elems(r.v) = Elems(v[2])
           /\ Size(v[2]) # 0 => r.alloc # 0 /\ r.blk = "new"

\* A step changes one vector, or exchanges the two.
OneVectorPerStep ==
    \/ v'[1] = v[1]
    \/ v'[2] = v[2]
    \/ v'[1] = v[2] /\ v'[2] = v[1]

\* C14: the copy b of a has a's size, the capacity a.size and a's element
\* values, in a block allocated by the constructor; and no later step changes
\* both vectors unless it exchanges them, so operations on one leave the
\* other's size, capacity and elements unchanged.
CopyIsEqualAndIndependent == []CopyCtorResult /\ [][OneVectorPerStep]_vars

\* A source with one element and a spare slot, next to an empty vector: the
\* copy has capacity 1.
CopyIsEqualAndIndependentWitness ==
    /\ Copyable /\ v[1] = EmptyVec
    /\ Valid(v[2]) /\ Size(v[2]) = 1 /\ Capacity(v[2]) = 2 /\ v[2].data[1] = 1
    /\ CopyCtor(v[2], 0).v = [data |-> <<1>>, size |-> 1]

\* C15: a copy assignment dst = src in which nothing throws returns with
\* dst.size == src.size, dst's elements equal to src's and no object in dst's
\* slots from src.size on, on each of the three paths; when dst.capacity >=
\* src.size beforehand, dst keeps its block and capacity.  Assignment to
\* itself changes nothing.
CopyAssignResult ==
    \A c \in Calls(1, {"CopyAssign"}, NoFault) :
        /\ c.r.res = "ok"
        /\ IF c.arg = 1 THEN c.r.v = v[1] /\ c.r.alloc = 0
           ELSE /\ Size(c.r.v) = Size(v[2])
                /\ Elems(c.r.v) = Elems(v[2])
                /\ Valid(c.r.v)
                /\ Capacity(v[1]) >= Size(v[2]) =>
                      /\ Capacity(c.r.v) = Capacity(v[1])
                      /\ c.r.alloc = 0 /\ c.r.blk = "own"

\* A destination <<a, b>> and a source <<c>> with c # a: the first slot is
\* overwritten and the second destroyed.
CopyAssignResultWitness ==
    /\ Size(v[1]) = 2 /\ Size(v[2]) = 1 /\ v[1].data[1] # v[2].data[1]
    /\ \E c \in Calls(1, {"CopyAssign"}, NoFault) :
          c.arg = 0 /\ c.r.v.data[2] = Raw /\ c.r.v.data[1] = v[2].data[1]

\* C16: Reserve(n) with n <= capacity changes nothing; with n > capacity, when
\* nothing throws, the capacity becomes exactly n, the size is unchanged and
\* the elements are the same values in the same order.
ReserveResult ==
    \A c \in Calls(1, {"Reserve"}, NoFault) :
        /\ c.r.res = "ok"
        /\ IF c.arg <= Capacity(v[1])
           THEN c.r.v = v[1] /\ c.r.alloc = 0 /\ c.r.blk = "own"
           ELSE /\ Capacity(c.r.v) = c.arg
                /\ Size(c.r.v) = Size(v[1])
                /\ Elems(c.r.v) = Elems(v[1])

\* A full vector <<a, b>>, a # b, and Reserve(3): capacity 3, not 4.
ReserveResultWitness ==
    /\ Size(v[1]) = 2 /\ Capacity(v[1]) = 2 /\ v[1].data[1] # v[1].data[2]
    /\ \E c \in Calls(1, {"Reserve"}, NoFault) :
          /\ c.arg = 3
          /\ c.r.v = [data |-> <<v[1].data[1], v[1].data[2], Raw>>, size |-> 2]

\* C17: from a vector of size s, Resize(n) followed by Resize(s) yields size
\* s with the first min(n, s) elements as before and value-initialised
\* elements at the indices from n to s - 1; Resize(s) alone changes nothing;
\* and no Resize, failed or not, lowers the capacity.
ResizeRoundTrip ==
    Valid(v[1]) =>
        \A n \in 0..MaxCap :
            LET s == Size(v[1])
                r1 == Resize(v[1], n, ty, 0)
                r2 == Resize(r1.v, s, ty, 0)
            IN /\ r1.res = "ok" /\ r2.res = "ok"
               /\ Size(r1.v) = n /\ Size(r2.v) = s
               /\ \A k \in 1..s :
                     r2.v.data[k] = IF k <= n THEN v[1].data[k] ELSE DefaultValue
               /\ n = s => r1.v = v[1]
               /\ Capacity(r2.v) >= Capacity(r1.v)
               /\ \A f \in 0..r1.c :
                     Capacity(Resize(v[1], n, ty, f).v) >= Capacity(v[1])

\* A vector <<_, 1>>: Resize(1) then Resize(2) puts the default value where
\* the 1 was.
ResizeRoundTripWitness ==
    /\ Valid(v[1]) /\ Size(v[1]) = 2 /\ v[1].data[2] = 1
    /\ Elems(Resize(Resize(v[1], 1, ty, 0).v, 2, ty, 0).v)
          = <<v[1].data[1], DefaultValue>>

\* The calls that fit in the capacity the vector has.
FitsInCapacity(c, vec, rhs) ==
    \/ c.op \in {"PopBack", "Erase"}
    \/ c.op \in {"Resize", "Reserve"} /\ c.arg <= Capacity(vec)
    \/ c.op \in AppendOps \cup InsertOps /\ Size(vec) < Capacity(vec)
    \/ c.op = "CopyAssign" /\ (c.arg = 1 \/ Capacity(vec) >= Size(rhs))

\* The operations that have calls that fit in the capacity of vec.
FittingOps(vec) ==
    {"PopBack", "Erase", "Resize", "Reserve", "CopyAssign"}
    \cup (IF Size(vec) < Capacity(vec) THEN AppendOps \cup InsertOps ELSE {})

\* C18: a call that fits in the existing capacity (PopBack, Erase, Resize
\* and Reserve up to the capacity, appends and insertions with size <
\* capacity, copy assignment from a source no larger than the capacity)
\* allocates nothing and leaves the vector with the block and the capacity it
\* had, whether it returns or throws.
InCapacityKeepsBuffer ==
    \A c \in Calls(1, FittingOps(v[1]), AllFaults) :
        FitsInCapacity(c, v[1], v[2]) =>
            /\ c.r.alloc = 0
            /\ c.r.blk = "own"
            /\ Capacity(c.r.v) = Capacity(v[1])

\* A vector with two elements and a spare slot on which an Emplace at the
\* front throws during the backward shift.
InCapacityKeepsBufferWitness ==
    /\ Size(v[1]) = 2 /\ Capacity(v[1]) = 3
    /\ \E c \in Calls(1, {"Emplace"}, AllFaults) :
          /\ c.arg = 0 /\ c.f = 3 /\ c.r.res = "throw"
          /\ c.r.alloc = 0 /\ c.r.blk = "own"

\* The arguments that refer to an element of vec: a copy needs a copyable T.
AliasArgs(vec, t) ==
    { a \in [j : 0..(Size(vec) - 1), move : BOOLEAN] : ~a.move => t.copyable }

\* vec after T(args) has read its argument, and the value it read.
AfterRead(vec, a) == [vec EXCEPT !.data = ReadArg(vec.data, a).data]

\* C19: when the argument of Insert/Emplace/PushBack/EmplaceBack is the
\* element v[j] of the same vector, the inserted element has the value v[j]
\* had before the call, for every position and every j, with and without
\* reallocation, and the vector is the one the insertion of an independent
\* object of that value gives.
AliasedArgumentReadFirst ==
    Valid(v[1]) =>
        \A a \in AliasArgs(v[1], ty) :
            LET old == v[1].data[a.j + 1]
                app == EmplaceBackOf(v[1], a, ty, 0)
            IN /\ app.res = "ok"
               /\ app.v.data[Size(v[1]) + 1] = old
               /\ app.v = EmplaceBack(AfterRead(v[1], a), old,
                                      ArgThrows(a, ty), ty, 0).v
               /\ \A p \in 0..Size(v[1]) :
                     LET r == EmplaceOf(v[1], p, a, ty, 0)
                     IN /\ r.res = "ok"
                        /\ r.v.data[p + 1] = old
                        /\ r.v = Emplace(AfterRead(v[1], a), p, old,
                                         ArgThrows(a, ty), ty, 0).v

\* A vector <<_, 1>> with a spare slot: Insert(begin(), v[1]) shifts v[1]
\* away before the new value is stored, and the new first element is 1.
AliasedArgumentReadFirstWitness ==
    /\ ty.copyable /\ Valid(v[1])
    /\ Size(v[1]) = 2 /\ Capacity(v[1]) = 3 /\ v[1].data[2] = 1
    /\ Elems(EmplaceOf(v[1], 0, [j |-> 1, move |-> FALSE], ty, 0).v)
          = <<1, v[1].data[1], 1>>

\* Fewer than two relocations per append call made so far.
RelocationsBelowTwicePerAppend == appends >= 1 => relocs < 2 * appends

\* An append on a vector with size < capacity relocates nothing.
FittingAppendRelocatesNothing ==
    Size(v[1]) < Capacity(v[1]) => relocs' = relocs

\* C20: for N >= 1 append calls on an initially empty vector of a type with a
\* noexcept move, the old elements moved into new blocks, summed over the N
\* calls, number fewer than 2N, and an append that fits in the capacity
\* moves none.
AmortizedAppendCost ==
    []RelocationsBelowTwicePerAppend /\ [][FittingAppendRelocatesNothing]_vars

\* Five appends, the fifth of which reallocates from capacity 4 to 8: 1 + 2
\* + 4 elements relocated.
AmortizedAppendCostWitness ==
    /\ appends = 5 /\ Size(v[1]) = 5 /\ Capacity(v[1]) = 8
    /\ relocs = 7

\* C21: every object a call constructs is destroyed exactly once before its
\* storage is released, also when the call fails: a block the call
\* deallocates holds no object, and the vector is left with objects in
\* exactly the slots [0, size), those its destructor will destroy.
ElementsDestroyedOnce ==
    \A c \in Calls(1, ElementOps, AllFaults) :
        /\ \A k \in 1..Len(c.r.freed) : c.r.freed[k] = Raw
        /\ Valid(c.r.v)

\* No vector's capacity is lower after the step than before it.
CapacityKept == \A i \in Vecs : Capacity(v'[i]) >= Capacity(v[i])

\* C22: in every sequence of Reserve, Resize, PushBack, EmplaceBack, PopBack,
\* Insert, Emplace, Erase and copy assignment, each call, returning or
\* throwing, leaves the capacity of each vector at least what it was: a
\* capacity is lowered only by the operations that exchange buffers.
CapacityNeverDecreases == [][CapacityKept]_vars

\* A vector of capacity 3 that was emptied and then copy-assigned from a
\* source of one element: it still has capacity 3.
CapacityNeverDecreasesWitness ==
    /\ Capacity(v[1]) = 3 /\ Elems(v[1]) = <<1>>
    /\ v[2] = [data |-> <<1>>, size |-> 1]

====
